---- MODULE Spec2Model ----
(***************************************************************************)
(* Model of the particle burst of src/app/page.tsx: makeParticles, the     *)
(* BurstCanvas effect (activation and cleanup), the per-frame tick, and    *)
(* the browser's animation-frame callback map that delivers the frames.    *)
(*                                                                         *)
(* Numbers are fixed point.  Time is counted in ticks of 1/6000 s, so that *)
(* both 1/60 s (100 ticks) and the 0.033 s cap (198 ticks) are exact.      *)
(* life is in millionths, lengths and speeds in hundredths, angles in      *)
(* thousandths of a radian, drag factors in ten-thousandths.               *)
(***************************************************************************)
EXTENDS Integers, Sequences, FiniteSets

----------------------------------------------------------------------------
(* Bounds of the model *)

\* timestamps (performance.now(), the frame timestamp) range over 0..MaxTime
MaxTime == 5200
\* number of distinct values Math.random() returns (k / RandLevels)
RandLevels == 13
\* number of random streams a handler may be run with
NumSeeds == 1

Seeds == 0 .. (NumSeeds - 1)

----------------------------------------------------------------------------
(* Units *)

TicksPerMs == 2 * 3
TicksPerSecond == 1000 * TicksPerMs
LifeOne == 1000 * 1000
Centi == 10 * 10
Milli == 10 * 10 * 10
DragOne == 100 * 100
PiMilli == 3142 + 0

----------------------------------------------------------------------------
(* Program constants *)

GameCount == 55
OtherCount == 45
GameGravity == 520
OtherGravity == 420
\* drag, in hundredths
GameDrag == 86
OtherDrag == 88
\* fade rate, in hundredths of a life unit per second
GameFade == 135
OtherFade == 120
\* the cap of dt, 0.033 s, in milliseconds
MaxDtMs == 33
\* chance of a hollow media particle, in hundredths
HollowPct == 35
\* chance of the hot colour pair, in hundredths
HotPct == 50
HollowLineWidth == 2

BurstKind == {"none", "game", "media"}

----------------------------------------------------------------------------
(* Pure helpers *)

Min(a, b) == IF a < b THEN a ELSE b
Max(a, b) == IF a > b THEN a ELSE b

\* clamp without its Math.max
clampNoFloor(n, a, b) == Min(b, n)

\* clamp(n, a, b) = Math.max(a, Math.min(b, n))
clamp(n, a, b) == Max(a, Min(b, n))

\* The k-th value (0-based) of the random stream `seed`, as a level in
\* 0..RandLevels-1; it stands for Math.random() = level / RandLevels.
Random(seed, k) == (seed + 5 * k) % RandLevels

\* rand(min, max) = Math.random() * (max - min) + min, for a random level r
rand(r, min, max) == ((r * (max - min)) \div RandLevels) + min

\* Math.random() < pct / 100
RandomBelow(r, pct) == r * 100 < pct * RandLevels

\* sine and cosine (thousandths) of phi (thousandths of a radian),
\* |phi| <= pi/2, by their Taylor polynomials
Mul(a, b) == (a * b) \div Milli
SinPoly(phi) ==
    LET p2 == Mul(phi, phi)
        p3 == Mul(p2, phi)
        p5 == Mul(p3, p2)
        p7 == Mul(p5, p2)
    IN  phi - (p3 \div 6) + (p5 \div 120) - (p7 \div 5040)
CosPoly(phi) ==
    LET p2 == Mul(phi, phi)
        p4 == Mul(p2, p2)
        p6 == Mul(p4, p2)
        p8 == Mul(p4, p4)
    IN  Milli - (p2 \div 2) + (p4 \div 24) - (p6 \div 720) + (p8 \div 40320)

\* Math.cos / Math.sin of an angle of the emission cone [-0.9 pi, -0.1 pi]:
\* cos(a) = sin(a + pi/2), sin(a) = -cos(a + pi/2)
Cos(a) == SinPoly(a + (PiMilli \div 2))
Sin(a) == 0 - CosPoly(a + (PiMilli \div 2))

\* Math.pow(drag, dt * 60) in ten-thousandths, drag in hundredths and dt in
\* ticks: the exponent is n / 100; the whole part by multiplication, the
\* fractional part by exp(f * ln drag) (ln 0.86 = -0.1508, ln 0.88 = -0.1278)
LnDrag(drag) == IF drag = GameDrag THEN 0 - 1508 ELSE 0 - 1278
RECURSIVE IntPow(_, _)
IntPow(drag, e) ==
    IF e = 0 THEN DragOne
    ELSE IF e < 0 THEN (DragOne * DragOne) \div IntPow(drag, 0 - e)
    ELSE (IntPow(drag, e - 1) * drag) \div 100
FracPow(drag, f) ==
    LET x  == (f * LnDrag(drag)) \div 100
        x2 == (x * x) \div DragOne
        x3 == (x2 * x) \div DragOne
    IN  DragOne + x + (x2 \div 2) + (x3 \div 6)
\* drag applied once per frame, whatever dt: p.vx *= drag
PowPerFrame(drag, n) == drag * 100

Pow(drag, n) == (IntPow(drag, n \div 100) * FracPow(drag, n % 100)) \div DragOne

----------------------------------------------------------------------------
(* makeParticles *)

\* random values drawn per particle: angle, speed, two jitters, size, rot, vr,
\* and for "media" the hollow draw
DrawsPerParticle(kind) == IF kind = "media" THEN 8 ELSE 7

\* the i-th particle (0-based) pushed by makeParticles(kind, x, y) under the
\* random stream seed; style and idx are history fields: the style the
\* particle was made with and its place at spawn
MakeParticle(kind, x, y, seed, i) ==
    LET base  == i * DrawsPerParticle(kind)
        R(j)  == Random(seed, base + j)
        angle == rand(R(0), 0 - ((9 * PiMilli) \div 10), 0 - (PiMilli \div 10))
        speed == IF kind = "game" THEN rand(R(1), 140 * Centi, 360 * Centi)
                                  ELSE rand(R(1), 110 * Centi, 280 * Centi)
        vx    == ((Cos(angle) * speed) \div Milli) + rand(R(2), 0 - 60 * Centi, 60 * Centi)
        vy    == ((Sin(angle) * speed) \div Milli) + rand(R(3), 0 - 40 * Centi, 40 * Centi)
    IN  [ x      |-> x,
          y      |-> y,
          vx     |-> vx,
          vy     |-> vy,
          life   |-> LifeOne,
          size   |-> IF kind = "game" THEN rand(R(4), 4 * Centi, 10 * Centi)
                                      ELSE rand(R(4), 3 * Centi, 9 * Centi),
          rot    |-> rand(R(5), 0, 2 * PiMilli),
          vr     |-> rand(R(6), 0 - 6 * Milli, 6 * Milli),
          hollow |-> IF kind = "media" THEN RandomBelow(R(7), HollowPct) ELSE FALSE,
          style  |-> kind,
          idx    |-> i + 1 ]

\* particles spawned with a random life: life: rand(0.5, 1)
makeParticlesRandomLife(kind, x, y, seed) ==
    LET count == IF kind = "game" THEN GameCount ELSE OtherCount
    IN  [i \in 1..count |->
            [MakeParticle(kind, x, y, seed, i - 1)
                EXCEPT !.life = rand(Random(seed, i), LifeOne \div 2, LifeOne)]]

makeParticles(kind, x, y, seed) ==
    LET count == IF kind = "game" THEN GameCount ELSE OtherCount
    IN  [i \in 1..count |-> MakeParticle(kind, x, y, seed, i - 1)]

----------------------------------------------------------------------------
(* Inputs *)

\* the cap of dt in ticks
MaxDt == MaxDtMs * TicksPerMs

\* the canvas rectangle read by getBoundingClientRect() at activation
Rects == {[width |-> 200 * Centi, height |-> 100 * Centi]}
\* values of performance.now() at activation
ActivationTimes == {0}
\* a frame's timestamp minus the reference time lastTRef: no time elapsed,
\* and a gap longer than the cap
FrameDeltas == {0, 200}

----------------------------------------------------------------------------
(* State *)

VARIABLES
    mounted,       \* the BurstCanvas component is mounted
    active,        \* prop active, as of the last effect run
    kind,          \* prop kind, as of the last effect run
    hasCleanup,    \* the last effect run returned its cleanup function
    ctxOk,         \* canvasRef.current and its getContext("2d") are not null
    rafRef,        \* rafRef.current; 0 stands for null
    particlesRef,  \* particlesRef.current
    lastTRef,      \* lastTRef.current
    callbacks,     \* the browser's map of animation frame callbacks
    frameHandles,  \* handles the frame being delivered has yet to visit
    surface,       \* the draw calls on the canvas since the last clearRect
    replaced,      \* history: the last activation discarded a burst that
                   \* still had particles
    lastTick       \* history: the timestamp t the last call of tick for the
                   \* burst in place was made with, and the dt it computed

vars == <<mounted, active, kind, hasCleanup, ctxOk, rafRef, particlesRef,
          lastTRef, callbacks, frameHandles, surface, replaced, lastTick>>

\* no call of tick yet
NoTick == [t |-> 0, dt |-> 0 - 1]

Init ==
    /\ mounted = FALSE
    /\ active = FALSE
    /\ kind = "none"
    /\ hasCleanup = FALSE
    /\ ctxOk \in BOOLEAN
    /\ rafRef = 0
    /\ particlesRef = <<>>
    /\ lastTRef = 0
    /\ callbacks = {}
    /\ frameHandles = {}
    /\ surface = <<>>
    /\ replaced = FALSE
    /\ lastTick = NoTick

----------------------------------------------------------------------------
(* The browser's animation frame callbacks *)

Handles(cbs) == {cb.handle : cb \in cbs}

\* the handle requestAnimationFrame returns: one that names no callback,
\* pending or delivered, and that no reference still holds
FreshHandle(cbs, held) ==
    CHOOSE h \in 1 .. (Cardinality(Handles(cbs) \cup held) + 1) :
        h \notin Handles(cbs) \cup held

\* requestAnimationFrame(tick), tick closing over kind
requestAnimationFrame(cbs, h, k) ==
    cbs \cup {[handle |-> h, kind |-> k]}

cancelAnimationFrame(cbs, h) == {cb \in cbs : cb.handle # h}

----------------------------------------------------------------------------
(* tick *)

\* the life a particle of style k loses per tick of dt
FadePerTick(k) ==
    ((IF k = "game" THEN GameFade ELSE OtherFade) * LifeOne) \div (100 * TicksPerSecond)

\* a loop body that applies the drag before the gravity
StepParticleDragFirst(k, p, dt) ==
    LET g    == IF k = "game" THEN GameGravity ELSE OtherGravity
        drag == IF k = "game" THEN GameDrag ELSE OtherDrag
        vx2  == (p.vx * Pow(drag, dt)) \div DragOne
        vy2  == ((p.vy * Pow(drag, dt)) \div DragOne) + ((g * Centi * dt) \div TicksPerSecond)
        life == p.life - dt * FadePerTick(k)
    IN  [p EXCEPT !.vx   = vx2,
                  !.vy   = vy2,
                  !.x    = p.x + ((vx2 * dt) \div TicksPerSecond),
                  !.y    = p.y + ((vy2 * dt) \div TicksPerSecond),
                  !.rot  = p.rot + ((p.vr * dt) \div TicksPerSecond),
                  !.life = clamp(life, 0, LifeOne)]

\* the loop body up to the clamp of life, for one particle
StepParticle(k, p, dt) ==
    LET g    == IF k = "game" THEN GameGravity ELSE OtherGravity
        drag == IF k = "game" THEN GameDrag ELSE OtherDrag
        vy1  == p.vy + ((g * Centi * dt) \div TicksPerSecond)
        vx2  == (p.vx * Pow(drag, dt)) \div DragOne
        vy2  == (vy1 * Pow(drag, dt)) \div DragOne
        life == p.life - dt * FadePerTick(k)
    IN  [p EXCEPT !.vx   = vx2,
                  !.vy   = vy2,
                  !.x    = p.x + ((vx2 * dt) \div TicksPerSecond),
                  !.y    = p.y + ((vy2 * dt) \div TicksPerSecond),
                  !.rot  = p.rot + ((p.vr * dt) \div TicksPerSecond),
                  !.life = clamp(life, 0, LifeOne)]

\* a loop body that fills every circle, hollow or not
DrawCallAlwaysFills(k, p, hot) ==
    IF k = "game"
    THEN [op |-> "fillRect", color |-> "rgba(255,255,255,1)", alpha |-> p.life,
          x |-> p.x, y |-> p.y, rot |-> p.rot, size |-> p.size, lineWidth |-> 1,
          style |-> p.style, idx |-> p.idx]
    ELSE [op |-> "fill",
          color |-> IF RandomBelow(hot, HotPct) THEN "#d10b66" ELSE "#ff5aa5",
          alpha |-> p.life, x |-> p.x, y |-> p.y, rot |-> 0, size |-> p.size,
          lineWidth |-> 1, style |-> p.style, idx |-> p.idx]

\* the draw call of the loop body for a stepped particle p with life > 0;
\* hot is the random level of the isHot draw
DrawCall(k, p, hot) ==
    IF k = "game"
    THEN [op |-> "fillRect", color |-> "rgba(255,255,255,1)", alpha |-> p.life,
          x |-> p.x, y |-> p.y, rot |-> p.rot, size |-> p.size, lineWidth |-> 1,
          style |-> p.style, idx |-> p.idx]
    ELSE LET isHot  == RandomBelow(hot, HotPct)
             fill   == IF isHot THEN "#d10b66" ELSE "#ff5aa5"
             stroke == IF isHot THEN "#ff5aa5" ELSE "#d10b66"
         IN  IF p.hollow
             THEN [op |-> "stroke", color |-> stroke, alpha |-> p.life,
                   x |-> p.x, y |-> p.y, rot |-> 0, size |-> p.size,
                   lineWidth |-> HollowLineWidth,
                   style |-> p.style, idx |-> p.idx]
             ELSE [op |-> "fill", color |-> fill, alpha |-> p.life,
                   x |-> p.x, y |-> p.y, rot |-> 0, size |-> p.size,
                   lineWidth |-> 1,
                   style |-> p.style, idx |-> p.idx]

\* the particles after the for loop of a tick with elapsed time dt
Stepped(k, ps, dt) == [i \in DOMAIN ps |-> StepParticle(k, ps[i], dt)]

\* a < 0 -> continue
DrawnAtZero(p) == p.life >= 0

\* a <= 0 -> continue
Drawn(p) == p.life > 0

\* the draw calls of the for loop: the j-th particle drawn takes the j-th
\* value of the tick's random stream for isHot
Draws(k, ps, seed) ==
    LET drawn == SelectSeq(ps, Drawn)
    IN  [j \in DOMAIN drawn |-> DrawCall(k, drawn[j], Random(seed, j - 1))]

\* a filter that keeps the particles of life 0: (p) => p.life >= 0
AliveAtZero(p) == p.life >= 0

\* particlesRef.current.filter((p) => p.life > 0)
Alive(p) == p.life > 0
RemoveDead(ps) == SelectSeq(ps, Alive)

\* dt without the cap at 0.033 s
FrameDtNoCap(t, lastT) == Max(0, t - lastT)

\* dt capped from above only
FrameDtNoFloor(t, lastT) == Min(t - lastT, MaxDt)

\* const dt = clamp((t - lastTRef.current) / 1000, 0, 0.033), in ticks
FrameDt(t, lastT) == clamp(t - lastT, 0, MaxDt)

\* particlesRef.current.length === 0
NonemptyInverted(ps) == Len(ps) = 0

\* particlesRef.current.length >= 0
NonemptyOrEmpty(ps) == Len(ps) >= 0

\* particlesRef.current.length > 0
Nonempty(ps) == Len(ps) > 0

\* tick(t), called for the callback cb the browser has taken out of its map
Tick(cb, t, seed, cbs) ==
    LET dt == FrameDt(t, lastTRef)
        h  == FreshHandle(cbs, frameHandles \cup {rafRef})
    IN  \E ps \in {Stepped(cb.kind, particlesRef, dt)} :
            /\ lastTRef' = t
            /\ lastTick' = [t |-> t, dt |-> dt]
            /\ surface' = Draws(cb.kind, ps, seed)
            /\ particlesRef' = RemoveDead(ps)
            /\ IF Nonempty(particlesRef')
               THEN /\ callbacks' = requestAnimationFrame(cbs, h, cb.kind)
                    /\ rafRef' = h
               ELSE /\ callbacks' = IF rafRef # 0 THEN cancelAnimationFrame(cbs, rafRef)
                                     ELSE cbs
                    /\ rafRef' = 0

----------------------------------------------------------------------------
(* The browser delivers a frame *)

\* the browser starts a frame and notes the handles of the callbacks pending
\* at that moment
FrameBegin ==
    /\ frameHandles = {}
    /\ callbacks # {}
    /\ frameHandles' = Handles(callbacks)
    /\ UNCHANGED <<mounted, active, kind, hasCleanup, ctxOk, rafRef, particlesRef,
                   lastTRef, callbacks, surface, replaced, lastTick>>

\* the handle the frame visits next
NextHandle == CHOOSE x \in frameHandles : \A y \in frameHandles : x <= y

\* the browser visits the next noted handle, whose callback is still in the
\* map: it removes the callback and invokes it with the frame's timestamp t
FrameRun(t, seed) ==
    /\ frameHandles # {}
    /\ NextHandle \in Handles(callbacks)
    /\ t \in 0..MaxTime
    /\ LET cb == CHOOSE c \in callbacks : c.handle = NextHandle
       IN  Tick(cb, t, seed, callbacks \ {cb})
    /\ frameHandles' = frameHandles \ {NextHandle}
    /\ UNCHANGED <<mounted, active, kind, hasCleanup, ctxOk, replaced>>

\* the browser visits a noted handle whose callback was cancelled meanwhile
FrameSkip ==
    /\ frameHandles # {}
    /\ NextHandle \notin Handles(callbacks)
    /\ frameHandles' = frameHandles \ {NextHandle}
    /\ UNCHANGED <<mounted, active, kind, hasCleanup, ctxOk, rafRef, particlesRef,
                   lastTRef, callbacks, surface, replaced, lastTick>>

----------------------------------------------------------------------------
(* The effect of BurstCanvas on [active, kind] *)

\* a cleanup that leaves the particles in place
CleanupKeepsParticles(refs) ==
    [raf       |-> 0,
     cbs       |-> IF refs.raf # 0 THEN cancelAnimationFrame(refs.cbs, refs.raf)
                   ELSE refs.cbs,
     particles |-> refs.particles]

\* a cleanup that forgets the handle without cancelling it
CleanupNoCancel(refs) ==
    [raf |-> 0, cbs |-> refs.cbs, particles |-> <<>>]

\* the refs after the cleanup function of the effect
Cleanup(refs) ==
    [raf       |-> 0,
     cbs       |-> IF refs.raf # 0 THEN cancelAnimationFrame(refs.cbs, refs.raf)
                   ELSE refs.cbs,
     particles |-> <<>>]

\* an effect that does not look at active
ActivatesInactive(a, k) == k # "none" /\ ctxOk

\* an effect without the returns on a null canvas or context
ActivatesNoCtx(a, k) == a /\ k # "none"

\* the effect proper gets past its early returns
Activates(a, k) == a /\ k # "none" /\ ctxOk

\* React runs the effect with props (a, k) on refs; rect, now, seed: what
\* getBoundingClientRect(), performance.now() and Math.random() return
RunEffect(refs, a, k, rect, now, seed) ==
    IF Activates(a, k)
    THEN LET h == FreshHandle(refs.cbs, frameHandles \cup {refs.raf})
         IN  /\ particlesRef' = makeParticles(k, rect.width \div 2, rect.height \div 2, seed)
             /\ lastTRef' = now
             /\ callbacks' = requestAnimationFrame(refs.cbs, h, k)
             /\ rafRef' = h
             /\ hasCleanup' = TRUE
    ELSE /\ particlesRef' = refs.particles
         /\ callbacks' = refs.cbs
         /\ rafRef' = refs.raf
         /\ hasCleanup' = FALSE
         /\ UNCHANGED lastTRef

CurrentRefs == [raf |-> rafRef, cbs |-> callbacks, particles |-> particlesRef]

\* the component mounts with props (a, k)
Mount(a, k, rect, now, seed) ==
    /\ ~mounted
    /\ mounted' = TRUE
    /\ active' = a
    /\ kind' = k
    /\ RunEffect(CurrentRefs, a, k, rect, now, seed)
    /\ replaced' = FALSE
    /\ lastTick' = NoTick
    /\ UNCHANGED <<ctxOk, frameHandles, surface>>

\* the component re-renders with changed props (a, k): React runs the cleanup
\* of the previous effect, if it returned one, then the effect
Update(a, k, rect, now, seed) ==
    /\ mounted
    /\ <<a, k>> # <<active, kind>>
    /\ active' = a
    /\ kind' = k
    /\ RunEffect(IF hasCleanup THEN Cleanup(CurrentRefs) ELSE CurrentRefs,
                 a, k, rect, now, seed)
    /\ replaced' = (hasCleanup /\ particlesRef # <<>> /\ Activates(a, k))
    /\ lastTick' = NoTick
    /\ UNCHANGED <<mounted, ctxOk, frameHandles, surface>>

\* the component unmounts: React runs the cleanup of the effect, and the
\* props are gone
Unmount ==
    /\ mounted
    /\ mounted' = FALSE
    /\ active' = FALSE
    /\ kind' = "none"
    /\ hasCleanup' = FALSE
    /\ replaced' = FALSE
    /\ lastTick' = NoTick
    /\ LET refs == IF hasCleanup THEN Cleanup(CurrentRefs) ELSE CurrentRefs
       IN  /\ rafRef' = refs.raf
           /\ callbacks' = refs.cbs
           /\ particlesRef' = refs.particles
    /\ UNCHANGED <<ctxOk, lastTRef, frameHandles, surface>>

----------------------------------------------------------------------------
(* Specification *)

\* the inputs the effect reads with props (a, k): none past an early return
NowInputs(a, k) == IF Activates(a, k) THEN ActivationTimes ELSE {0}
SeedInputs(a, k) == IF Activates(a, k) THEN Seeds ELSE {0}

Next ==
    \/ \E a \in BOOLEAN, k \in BurstKind, rect \in Rects :
          \E now \in NowInputs(a, k), seed \in SeedInputs(a, k) :
             Mount(a, k, rect, now, seed)
    \/ \E a \in BOOLEAN, k \in BurstKind, rect \in Rects :
          \E now \in NowInputs(a, k), seed \in SeedInputs(a, k) :
             Update(a, k, rect, now, seed)
    \/ Unmount
    \/ FrameBegin
    \/ \E d \in FrameDeltas, seed \in Seeds : FrameRun(lastTRef + d, seed)
    \/ FrameSkip

Spec == Init /\ [][Next]_vars

----------------------------------------------------------------------------
(* Frames with arbitrary timestamps: every frame may carry any timestamp of  *)
(* JitterTimes, earlier or later than the reference time, while the burst    *)
(* has lost less than JitterSpan of its life.                                *)

JitterSpan == 50000
JitterTimes == {0, 100, 200, 300}

InJitterWindow ==
    \A i \in DOMAIN particlesRef : LifeOne - particlesRef[i].life < JitterSpan

NextTimes ==
    \/ \E a \in BOOLEAN, k \in BurstKind, rect \in Rects :
          \E now \in NowInputs(a, k), seed \in SeedInputs(a, k) :
             Mount(a, k, rect, now, seed)
    \/ \E a \in BOOLEAN, k \in BurstKind, rect \in Rects :
          \E now \in NowInputs(a, k), seed \in SeedInputs(a, k) :
             Update(a, k, rect, now, seed)
    \/ Unmount
    \/ FrameBegin
    \/ \E t \in JitterTimes, seed \in Seeds : InJitterWindow /\ FrameRun(t, seed)
    \/ FrameSkip

SpecTimes == Init /\ [][NextTimes]_vars

----------------------------------------------------------------------------
(* Frames the browser keeps delivering: every pending callback is delivered  *)
(* in the end (weak fairness of the browser's three steps), each frame later *)
(* than the one before, at a steady rate per burst: 60 frames a second (100  *)
(* ticks apart) or 30 (200 ticks apart, beyond the cap of dt).  A running    *)
(* burst may be deactivated before its first frame only, also while the      *)
(* browser is delivering that frame, and not replaced in the same step by    *)
(* another burst.                                                            *)

LiveDeltas == {100, 200}

\* a burst is in place and has particles
Running == hasCleanup /\ particlesRef # <<>>

\* the props may change: no burst is running, or it has not had a frame yet
MayChangeProps == ~Running \/ lastTick = NoTick

\* the first frame of a burst sets its frame rate
SteadyRate(d) == lastTick = NoTick \/ lastTick.dt = FrameDt(lastTRef + d, lastTRef)

FrameRunLive ==
    \E d \in LiveDeltas, seed \in Seeds : SteadyRate(d) /\ FrameRun(lastTRef + d, seed)

NextLive ==
    \/ \E a \in BOOLEAN, k \in BurstKind, rect \in Rects :
          \E now \in NowInputs(a, k), seed \in SeedInputs(a, k) :
             Mount(a, k, rect, now, seed)
    \/ \E a \in BOOLEAN, k \in BurstKind, rect \in Rects :
          \E now \in NowInputs(a, k), seed \in SeedInputs(a, k) :
             /\ MayChangeProps /\ ~(Running /\ Activates(a, k))
             /\ Update(a, k, rect, now, seed)
    \/ MayChangeProps /\ Unmount
    \/ FrameBegin
    \/ FrameRunLive
    \/ FrameSkip

SpecLive ==
    /\ Init /\ [][NextLive]_vars
    /\ WF_vars(FrameBegin) /\ WF_vars(FrameRunLive) /\ WF_vars(FrameSkip)

----------------------------------------------------------------------------
(* Steps *)

\* this step is a frame step: the browser invokes tick
IsTickStep ==
    /\ frameHandles # {}
    /\ NextHandle \in Handles(callbacks)
    /\ frameHandles' = frameHandles \ {NextHandle}

\* this step runs the effect for new props (a mount or an update)
IsEffectStep == mounted' /\ (~mounted \/ <<active', kind'>> # <<active, kind>>)

\* this step is an activation: the effect runs with active and a burst kind
IsActivationStep == IsEffectStep /\ active' /\ kind' # "none"

\* this step takes the props away from a burst: an update or the unmount
IsDeactivationStep ==
    /\ mounted /\ hasCleanup
    /\ (~mounted' \/ <<active', kind'>> # <<active, kind>>)

\* the values dt takes in a frame step of Spec
DtSamples == {FrameDt(lastTRef + d, lastTRef) : d \in FrameDeltas}

ParticleIds(ps) == {ps[i].idx : i \in DOMAIN ps}

StyleCount(k) == IF k = "game" THEN GameCount ELSE OtherCount

----------------------------------------------------------------------------
(* Properties *)

\* C1: every particle of the burst has life within [0,1], in every reachable
\* state and at the end of the loop body of any frame step taken from it.
C1_LifeInRange ==
    /\ \A i \in DOMAIN particlesRef :
          particlesRef[i].life >= 0 /\ particlesRef[i].life <= LifeOne
    /\ \A cb \in callbacks, dt \in DtSamples : \A i \in DOMAIN particlesRef :
          LET p == StepParticle(cb.kind, particlesRef[i], dt)
          IN  p.life >= 0 /\ p.life <= LifeOne

\* a burst one capped frame away from the clamp of life at 0
C1_Witness ==
    /\ hasCleanup /\ callbacks # {} /\ particlesRef # <<>>
    /\ particlesRef[1].life < MaxDt * FadePerTick(kind)

\* C2: in every frame step, whatever its timestamp, the life of every particle
\* after the step is at most its life before the step.
C2_LifeNeverIncreases ==
    [][IsTickStep =>
         \A i \in DOMAIN particlesRef' : \A j \in DOMAIN particlesRef :
            particlesRef[j].idx = particlesRef'[i].idx
               => particlesRef'[i].life <= particlesRef[j].life]_vars

\* a burst that has faded and then got a frame stamped before an earlier one
C2_Witness ==
    /\ hasCleanup /\ particlesRef # <<>>
    /\ particlesRef[1].life < LifeOne
    /\ lastTRef = 0

\* C3: every draw call of a frame step is for a particle whose life after the
\* fade and clamp of that step is > 0, with that life as its opacity.
C3_DrawOnlyLive ==
    [][IsTickStep =>
         \A j \in DOMAIN surface' :
            /\ surface'[j].alpha > 0
            /\ \E i \in DOMAIN particlesRef' :
                  /\ particlesRef'[i].idx = surface'[j].idx
                  /\ particlesRef'[i].life = surface'[j].alpha]_vars

\* a frame has drawn the faded particles of a running burst
C3_Witness ==
    /\ hasCleanup /\ particlesRef # <<>> /\ surface # <<>>
    /\ Len(surface) = Len(particlesRef)
    /\ surface[1].alpha = particlesRef[1].life
    /\ surface[1].alpha < LifeOne

\* C4: no step other than an activation adds a particle: the set of particles
\* after the step is a subset of the set before it.
C4_OnlyShrinks ==
    [][~IsActivationStep =>
         ParticleIds(particlesRef') \subseteq ParticleIds(particlesRef)]_vars

\* a frame step has removed the particles of a burst that is still active
C4_Witness ==
    /\ hasCleanup /\ active /\ particlesRef = <<>> /\ surface = <<>>

\* C5: once a frame step has left the burst with no particle, no frame callback
\* is pending, no frame step runs, and the loop stays so until the props change.
C5_IdleOnceEmpty ==
    [][(hasCleanup /\ particlesRef = <<>>) =>
         /\ callbacks = {} /\ rafRef = 0
         /\ ~IsTickStep
         /\ (mounted' /\ <<active', kind'>> = <<active, kind>>)
               => (callbacks' = {} /\ rafRef' = 0 /\ particlesRef' = <<>>)]_vars

\* the burst has run to its end and the effect is still in place
C5_Witness ==
    /\ hasCleanup /\ particlesRef = <<>> /\ callbacks = {} /\ rafRef = 0
    /\ lastTRef > 0

\* C6: a step that takes the props away from a burst (active false, another
\* style, unmount) runs a cleanup that leaves no frame callback pending and
\* no particle; at the end of the step nothing at all is left, unless the step
\* activates a new burst, whose callback and particles are then the only ones.
C6_CancelIsSynchronous ==
    [][IsDeactivationStep =>
         /\ Cleanup(CurrentRefs) = [raf |-> 0, cbs |-> {}, particles |-> <<>>]
         /\ IF hasCleanup'
            THEN /\ \A cb \in callbacks' : cb.kind = kind' /\ cb.handle = rafRef'
                 /\ \A i \in DOMAIN particlesRef' :
                       particlesRef'[i].style = kind' /\ particlesRef'[i].life = LifeOne
            ELSE callbacks' = {} /\ rafRef' = 0 /\ particlesRef' = <<>>]_vars

\* a burst was deactivated after it had drawn a frame and before its end
C6_Witness ==
    /\ mounted /\ ~hasCleanup /\ ~active
    /\ surface # <<>> /\ particlesRef = <<>> /\ callbacks = {} /\ rafRef = 0

\* C7: when no burst is in place (after a deactivation in particular), nothing
\* drawn by a burst remains on the surface.
C7_SurfaceClearedAfterDeactivation ==
    ~hasCleanup => surface = <<>>

\* C8: while no burst is in place, no frame step runs: no step changes the
\* particles, the surface or the reference time, except an activation.
C8_NoStrayFrame ==
    [][~hasCleanup =>
         /\ ~IsTickStep
         /\ hasCleanup' \/ UNCHANGED <<particlesRef, surface, lastTRef>>]_vars

\* the burst was cancelled while the browser was delivering the frame that had
\* noted its callback
C8_Witness ==
    /\ ~hasCleanup /\ frameHandles # {} /\ callbacks = {} /\ surface # <<>>

\* the shape and the colours the style k draws with
StyleRule(k, d) ==
    IF k = "game"
    THEN d.op = "fillRect" /\ d.color = "rgba(255,255,255,1)"
    ELSE d.op \in {"fill", "stroke"} /\ d.color \in {"#d10b66", "#ff5aa5"}

\* C9: every frame step runs for the burst in place: it steps the particles
\* with the physics of the current style, and each of its draw calls is for a
\* particle made by the current activation, drawn by the current style's rule.
C9_NoStaleRender ==
    [][IsTickStep =>
         /\ hasCleanup
         /\ particlesRef' =
               RemoveDead(Stepped(kind, particlesRef, FrameDt(lastTRef', lastTRef)))
         /\ \A j \in DOMAIN surface' :
               surface'[j].style = kind /\ StyleRule(kind, surface'[j])]_vars

\* a burst that replaced a running burst of the other style has drawn a frame
C9_Witness ==
    /\ replaced /\ hasCleanup /\ surface # <<>>
    /\ surface[1].style = kind

\* C10: at most one frame callback is pending, and the particles are those of
\* the burst in place only: all of the current style, each spawn place at most
\* once, no more than the style's count.
C10_OneBurst ==
    /\ Cardinality(callbacks) <= 1
    /\ \A i \in DOMAIN particlesRef :
          /\ hasCleanup /\ particlesRef[i].style = kind
          /\ \A j \in DOMAIN particlesRef :
                particlesRef[i].idx = particlesRef[j].idx => i = j
    /\ Len(particlesRef) <= StyleCount(kind)

\* a burst has just replaced a running burst: its particles are fresh and the
\* surface still shows the frame of the burst it replaced
C10_Witness ==
    /\ replaced /\ hasCleanup /\ surface # <<>>
    /\ surface[1].style # kind
    /\ Len(particlesRef) = StyleCount(kind)
    /\ \A i \in DOMAIN particlesRef : particlesRef[i].life = LifeOne

\* C11: an activation on a canvas without a 2D context is a no-op: the effect
\* returns no cleanup, and the particles, the reference time, the frame
\* callbacks, the handle and the surface are what they were.
C11_NoSurfaceNoOp ==
    [][(IsActivationStep /\ ~ctxOk) =>
         /\ ~hasCleanup'
         /\ UNCHANGED <<particlesRef, lastTRef, callbacks, rafRef, surface>>]_vars

\* the component was activated on a canvas without a 2D context
C11_Witness ==
    /\ ~ctxOk /\ mounted /\ active /\ kind # "none"
    /\ ~hasCleanup /\ particlesRef = <<>> /\ callbacks = {} /\ rafRef = 0

\* the styles that carry a parameter bundle
RecognizedKinds == {"game", "media"}

\* C12: makeParticles yields no particle for a style that is not a recognized
\* burst kind, whatever the origin and the random stream.
C12_UnrecognizedStyleFails ==
    \A k \in BurstKind \ RecognizedKinds : \A rect \in Rects, seed \in Seeds :
       makeParticles(k, rect.width \div 2, rect.height \div 2, seed) = <<>>

\* C13: in every frame step, whatever its timestamp t, the dt that tick
\* computes lies in [0, 0.033 s]: it is the cap when t is more than the cap
\* past the reference time, 0 when t is before the reference time, and the gap
\* itself in between; the particles are stepped and faded by that dt, and
\* the reference time after the step is t.
C13_DtClamped ==
    [][IsTickStep =>
         LET t   == lastTick'.t
             dt  == lastTick'.dt
             gap == t - lastTRef
         IN  /\ dt >= 0 /\ dt <= MaxDt
             /\ gap > MaxDt => dt = MaxDt
             /\ gap < 0 => dt = 0
             /\ (gap >= 0 /\ gap <= MaxDt) => dt = gap
             /\ particlesRef' = RemoveDead(Stepped(kind, particlesRef, dt))
             /\ lastTRef' = t]_vars

\* a burst that has faded by one capped frame got its last frame stamped 0,
\* before the timestamp of that capped frame, and did not fade in it
C13_Witness ==
    /\ hasCleanup /\ particlesRef # <<>>
    /\ particlesRef[1].life = LifeOne - MaxDt * FadePerTick(kind)
    /\ lastTick = [t |-> 0, dt |-> 0] /\ lastTRef = 0

\* C14: with frames delivered fairly and ever later, a running burst that is
\* not deactivated ends with no particle, no pending frame callback and a
\* null handle; until then every frame step fades every particle and draws
\* every particle it keeps.
C14_BurstEnds ==
    /\ Running ~> (particlesRef = <<>> /\ callbacks = {} /\ rafRef = 0)
    /\ [][IsTickStep =>
             /\ \A j \in DOMAIN particlesRef : \A i \in DOMAIN particlesRef' :
                    particlesRef'[i].idx = particlesRef[j].idx
                       => particlesRef'[i].life < particlesRef[j].life
             /\ ParticleIds(particlesRef') = {surface'[j].idx : j \in DOMAIN surface'}
             /\ Len(surface') = Len(particlesRef')]_vars

\* a burst has run to its end at 60 frames a second and the effect is still
\* in place
C14_Witness ==
    /\ hasCleanup /\ active /\ particlesRef = <<>> /\ callbacks = {} /\ rafRef = 0
    /\ lastTick.dt = 100 /\ surface = <<>>

\* C15: in every frame step the one draw call of a hollow particle is a stroke
\* of width 2 in either colour, never a fill, and that of a particle that is
\* not hollow is no stroke; no frame step changes the hollow flag of a
\* particle; a particle of style "game" is never hollow.
C15_HollowNeverFilled ==
    /\ [](\A i \in DOMAIN particlesRef :
             particlesRef[i].style = "game" => ~particlesRef[i].hollow)
    /\ [][IsTickStep =>
             \A i \in DOMAIN particlesRef' :
                /\ \A j \in DOMAIN particlesRef :
                      particlesRef[j].idx = particlesRef'[i].idx
                         => particlesRef'[i].hollow = particlesRef[j].hollow
                /\ Cardinality({j \in DOMAIN surface' :
                                    surface'[j].idx = particlesRef'[i].idx}) = 1
                /\ \A j \in DOMAIN surface' :
                      surface'[j].idx = particlesRef'[i].idx =>
                         IF particlesRef'[i].hollow
                         THEN /\ surface'[j].op = "stroke"
                              /\ surface'[j].lineWidth = HollowLineWidth
                              /\ surface'[j].color \in {"#ff5aa5", "#d10b66"}
                         ELSE surface'[j].op # "stroke"]_vars

\* a frame late in a "media" burst has stroked hollow particles in the hot and
\* in the cool stroke colour and filled the others
C15_Witness ==
    /\ hasCleanup /\ kind = "media" /\ Len(surface) = Len(particlesRef)
    /\ \E i \in DOMAIN particlesRef : particlesRef[i].hollow
    /\ \E i \in DOMAIN particlesRef : ~particlesRef[i].hollow
    /\ \E j \in DOMAIN surface :
          /\ surface[j].op = "stroke" /\ surface[j].color = "#ff5aa5"
          /\ 2 * surface[j].alpha < LifeOne
    /\ \E j \in DOMAIN surface :
          surface[j].op = "stroke" /\ surface[j].color = "#d10b66"
    /\ \E j \in DOMAIN surface : surface[j].op = "fill"

\* C16: a frame step whose timestamp is not later than the reference time (dt
\* clamped to 0) leaves every particle as it was (position, velocity, rotation,
\* life), draws each of them where it was with its life as opacity, which is
\* 1 for a burst that has not faded yet, and requests the next frame.
C16_ZeroDtFrame ==
    [][(IsTickStep /\ lastTRef' <= lastTRef) =>
         /\ lastTick'.dt = 0
         /\ particlesRef' = particlesRef
         /\ Len(surface') = Len(particlesRef)
         /\ \A i \in DOMAIN particlesRef :
               /\ surface'[i].idx = particlesRef[i].idx
               /\ surface'[i].x = particlesRef[i].x
               /\ surface'[i].y = particlesRef[i].y
               /\ surface'[i].alpha = particlesRef[i].life
               /\ lastTick = NoTick => surface'[i].alpha = LifeOne
         /\ rafRef' # 0
         /\ callbacks' = {[handle |-> rafRef', kind |-> kind]}]_vars

\* the first frame of a burst came with the timestamp of the activation: all
\* its particles are drawn at the origin with opacity 1 and none has changed
C16_Witness ==
    /\ hasCleanup /\ lastTick = [t |-> 0, dt |-> 0] /\ callbacks # {}
    /\ Len(particlesRef) = StyleCount(kind) /\ Len(surface) = StyleCount(kind)
    /\ \A i \in DOMAIN particlesRef :
          /\ particlesRef[i].life = LifeOne /\ surface[i].alpha = LifeOne
          /\ \E rect \in Rects :
                /\ particlesRef[i].x = rect.width \div 2 /\ surface[i].x = rect.width \div 2
                /\ particlesRef[i].y = rect.height \div 2

\* C17: the frame step that leaves a burst with no particle (all that remained
\* reached life 0 in it) draws nothing after its clearRect, so that the
\* surface is clear, no frame callback is pending and the handle is null.
C17_FinalFrameClears ==
    [][(IsTickStep /\ particlesRef # <<>> /\ particlesRef' = <<>>) =>
         /\ \A i \in DOMAIN particlesRef :
               particlesRef[i].life <= lastTick'.dt * FadePerTick(kind)
         /\ surface' = <<>>
         /\ callbacks' = {} /\ rafRef' = 0]_vars

\* a burst that had drawn frames has ended in a capped frame, which cleared
\* the surface
C17_Witness ==
    /\ mounted /\ hasCleanup /\ particlesRef = <<>> /\ surface = <<>>
    /\ callbacks = {} /\ rafRef = 0 /\ frameHandles = {}
    /\ lastTick.dt = MaxDt /\ lastTick.t = lastTRef /\ lastTRef >= 4000

\* C18: between frame steps no particle of the burst has life <= 0: a frame
\* step keeps exactly the particles whose life after its fade and clamp is > 0.
C18_NoDeadAtBoundary ==
    /\ [](\A i \in DOMAIN particlesRef : particlesRef[i].life > 0)
    /\ [][IsTickStep =>
             \A j \in DOMAIN particlesRef :
                (StepParticle(kind, particlesRef[j], lastTick'.dt).life > 0)
                   <=> (particlesRef[j].idx \in ParticleIds(particlesRef'))]_vars

\* the last frame of a "media" burst took every particle to life 0 and removed
\* them all
C18_Witness ==
    /\ hasCleanup /\ kind = "media" /\ particlesRef = <<>>
    /\ lastTick.dt > 0 /\ lastTick.t > 0

\* the particle of the scenario: style "game", at (100, 100), velocity
\* (200, -300), just spawned
ScenarioParticle ==
    [x |-> 100 * Centi, y |-> 100 * Centi, vx |-> 200 * Centi, vy |-> 0 - 300 * Centi,
     life |-> LifeOne, size |-> 4 * Centi, rot |-> 0, vr |-> 0, hollow |-> FALSE,
     style |-> "game", idx |-> 1]

\* a and b differ by at most tol
Near(a, b, tol) == a - b <= tol /\ b - a <= tol

\* C19: a frame of dt = 1/60 s (100 ticks, drag^1) turns velocity (vx, vy) into
\* (vx * d, (vy + g/60) * d), moves the particle by the new velocity / 60 and
\* takes f/60 off its life, with g, d, f = 520, 0.86, 1.35 for "game" and
\* 420, 0.88, 1.2 for the other style: so for every particle a frame step of
\* that dt keeps, and for the scenario's particle, which ends with velocity
\* (172, -250.55) and life 0.9775.
C19_UpdateOrder ==
    /\ [](LET q == StepParticle("game", ScenarioParticle, 100)
          IN  /\ q.vx = 172 * Centi
              /\ Near(q.vy, 0 - 25055, 2)
              /\ Near(q.x, 100 * Centi + 287, 2)
              /\ Near(q.y, 100 * Centi - 418, 2)
              /\ q.life = 977500)
    /\ [][(IsTickStep /\ lastTick'.dt = 100) =>
             LET g == IF kind = "game" THEN 520 ELSE 420
                 d == IF kind = "game" THEN 86 ELSE 88
                 f == IF kind = "game" THEN 135 ELSE 120
             IN  \A i \in DOMAIN particlesRef' : \A j \in DOMAIN particlesRef :
                    particlesRef[j].idx = particlesRef'[i].idx =>
                       LET p == particlesRef[j]
                           q == particlesRef'[i]
                       IN  /\ Near(100 * q.vx, p.vx * d, 100)
                           /\ Near(100 * q.vy, (p.vy + ((g * Centi) \div 60)) * d, 100)
                           /\ Near(60 * (q.x - p.x), q.vx, 60)
                           /\ Near(60 * (q.y - p.y), q.vy, 60)
                           /\ 60 * 100 * (p.life - q.life) = f * LifeOne]_vars

\* a "game" burst has had one frame of 1/60 s: its particles have life 0.9775
C19_Witness ==
    /\ hasCleanup /\ kind = "game" /\ lastTick.dt = 100
    /\ Len(particlesRef) = GameCount
    /\ \A i \in DOMAIN particlesRef : particlesRef[i].life = 977500

\* C20: the particles of a burst all have the same life, and there are as many
\* as the style spawns (55 for "game", 45 for "media") or none: a frame step
\* removes all of them or none.
C20_AllOrNothing ==
    /\ \A i, j \in DOMAIN particlesRef : particlesRef[i].life = particlesRef[j].life
    /\ Len(particlesRef) \in
          {0, IF kind = "game" THEN 55 ELSE IF kind = "media" THEN 45 ELSE 0}

\* a "media" burst in the second half of its life still has its 45 particles
C20_Witness ==
    /\ hasCleanup /\ kind = "media" /\ Len(particlesRef) = 45
    /\ 2 * particlesRef[1].life < LifeOne /\ particlesRef[45].life > 0

====
